---------------------------- MODULE Spec2Model ----------------------------
(***************************************************************************)
(* A model of exotic.py: the ExoticFunction wrapper, its operators         *)
(* (@, *, <<, >>, |), the `exotic` builder and the exotic functions        *)
(* `unpack`, `apply` and `identity`.                                       *)
(*                                                                         *)
(* Python objects live in a heap (a sequence of records); a reference is   *)
(* the positive index of its object, so two references are the same object *)
(* exactly when they are equal.  0 stands for None / "not passed".  The    *)
(* values user functions return during an operation are kept apart, in     *)
(* vals, compared by content and referred to by negative indices.          *)
(* A call is evaluated by the recursive operator Call, which threads the   *)
(* heap, the values and a log of every completed call.                     *)
(***************************************************************************)
EXTENDS Integers, Sequences, FiniteSets

VARIABLES
    heap,   \* the objects created so far, in creation order
    vals,   \* the values user functions returned during the last operation
    origin, \* for each object created since import, the operation that created it
    op,     \* the last operation: its name, operands, result and error
    log     \* the calls completed during the last operation, in order

vars == <<heap, vals, origin, op, log>>

----------------------------------------------------------------------------
(* Bounds *)

\* most objects a session creates
MaxNew == 4
\* most objects a session of compositions creates
MaxChain == 3
\* most objects a session of partial applications creates
MaxObjs == 4
\* most positional arguments the user passes to a wrapped callable
MaxArgs == 1
\* most positional arguments the user passes to apply
MaxApplyArgs == 3

----------------------------------------------------------------------------
(* Objects *)

\* the keyword arguments of a call: `func`, and the (name-mangled) keyword
\* `__x` of the lambda of __rshift__; 0 when not passed
NoKw == [func |-> 0, x |-> 0]

KwFunc(f) == [func |-> f, x |-> 0]

KwX(v) == [func |-> 0, x |-> v]

Obj(kind, func, composed, args, kw) ==
    [kind |-> kind, func |-> func, composed |-> composed, args |-> args, kw |-> kw]

\* ExoticFunction.__init__: self.func = func; self._composed = _composed
ExoticObj(func, composed) == Obj("exotic", func, composed, <<>>, NoKw)

\* functools.partial(func, *args)
PartialObj(func, args) == Obj("partial", func, 0, args, NoKw)

\* lambda *, __x=arg: __x  (the keyword-only default holds arg)
ThunkObj(arg) == Obj("thunk", 0, 0, <<>>, KwX(arg))

\* the value a user function returned: callee(args, kw), uninterpreted
ResObj(callee, args, kw) == Obj("res", callee, 0, args, kw)

\* the objects that exist once the module is imported
LAMID == 1
UNPACK_FN == 2
UNPACK == 3
APPLY_FN == 4
APPLY == 5
IDENTITY_FN == 6
IDENTITY == 7
\* user functions and data of the session
F == 8
G == 9
R == 10
P == 11
D1 == 12
D2 == 13
L == 14

BaseHeap ==
    << Obj("lambda_id", 0, 0, <<>>, NoKw),      \* default _composed: lambda x: x
       Obj("unpack_fn", 0, 0, <<>>, NoKw),      \* def unpack(arg, func=None)
       ExoticObj(UNPACK_FN, LAMID),             \* @ExoticFunction
       Obj("apply_fn", 0, 0, <<>>, NoKw),       \* def apply(args, func=None)
       ExoticObj(APPLY_FN, LAMID),              \* @ExoticFunction
       Obj("identity_fn", 0, 0, <<>>, NoKw),    \* def identity(x)
       ExoticObj(IDENTITY_FN, LAMID),           \* @ExoticFunction
       Obj("user", 0, 0, <<>>, NoKw),           \* F(args, kw): uninterpreted
       Obj("user", 0, 0, <<>>, NoKw),           \* G
       Obj("raiser", 0, 0, <<>>, NoKw),         \* R(args, kw): raises
       Obj("producer", L, 0, <<>>, NoKw),       \* P(): returns the list L
       Obj("const", 0, 0, <<>>, NoKw),          \* a datum
       Obj("const", 0, 0, <<>>, NoKw),          \* another
       Obj("list", 0, 0, <<D1, D2>>, NoKw) >>   \* [D1, D2]

NBase == Len(BaseHeap)

CallableKinds ==
    {"exotic", "partial", "thunk", "lambda_id", "unpack_fn", "apply_fn",
     "identity_fn", "user", "raiser", "producer"}

IsCallable(h, v) == v \in 1..Len(h) /\ h[v].kind \in CallableKinds

----------------------------------------------------------------------------
(* Calls *)

\* the machine during a call: the heap, the values, the log, and what the
\* last call left: the value returned (0 when it raised) and the error
\* raised ("" when it returned)
Outcome(m, ret, err) ==
    [heap |-> m.heap, vals |-> m.vals, log |-> m.log, ret |-> ret, err |-> err]

Machine(h) == [heap |-> h, vals |-> <<>>, log |-> <<>>, ret |-> 0, err |-> ""]

\* m with the objects os created
Alloc(m, os) == [m EXCEPT !.heap = m.heap \o os]

\* whether v can be unpacked with *: it is a list
IsList(m, v) == v \in 1..Len(m.heap) /\ m.heap[v].kind = "list"

RECURSIVE Call(_, _, _, _, _)

\* a __call__ that catches what self.func raises and goes on with None
ExoticCallCatches(m, self, args, kw, d) ==
    LET inner == Call(m, m.heap[self].func, args, kw, d + 1)
    IN  Call(inner, m.heap[self].composed, <<inner.ret>>, NoKw, d + 1)

\* ExoticFunction.__call__: self._composed(self.func(args, kwargs))
ExoticCall(m, self, args, kw, d) ==
    LET inner == Call(m, m.heap[self].func, args, kw, d + 1)
    IN  IF inner.err # "" THEN inner
        ELSE Call(inner, m.heap[self].composed, <<inner.ret>>, NoKw, d + 1)

\* a functools.partial object called: func(self.args + args, kw)
PartialCall(m, self, args, kw, d) ==
    Call(m, m.heap[self].func, m.heap[self].args \o args, kw, d + 1)

\* the default post-transform, lambda x: x
LambdaIdCall(m, args, kw) ==
    IF Len(args) # 1 \/ kw # NoKw THEN Outcome(m, 0, "TypeError")
    ELSE Outcome(m, args[1], "")

\* the lambda of __rshift__, lambda *, __x=arg: __x: no positional
\* parameters, one keyword-only parameter whose default is arg
ThunkCall(m, self, args, kw) ==
    IF Len(args) # 0 \/ kw.func # 0 THEN Outcome(m, 0, "TypeError")
    ELSE Outcome(m, IF kw.x # 0 THEN kw.x ELSE m.heap[self].kw.x, "")

\* an unpack that does not unpack: ExoticFunction(partial(func, arg()))
UnpackBodyNoStar(m, args, kw, d) ==
    IF \/ Len(args) \notin {1, 2}
       \/ kw.x # 0
       \/ (Len(args) = 2 /\ kw.func # 0)
    THEN Outcome(m, 0, "TypeError")
    ELSE
      LET func == IF Len(args) = 2 THEN args[2] ELSE kw.func
          prod == Call(m, args[1], <<>>, NoKw, d + 1)
      IN  IF prod.err # "" THEN prod
          ELSE IF ~IsList(prod, prod.ret) \/ ~IsCallable(prod.heap, func)
          THEN Outcome(prod, 0, "TypeError")
          ELSE Outcome(Alloc(prod, << PartialObj(func, <<prod.ret>>),
                                      ExoticObj(Len(prod.heap) + 1, LAMID) >>),
                       Len(prod.heap) + 2, "")

\* def unpack(arg, func=None): return ExoticFunction(partial(func, *arg()))
UnpackBody(m, args, kw, d) ==
    IF \/ Len(args) \notin {1, 2}
       \/ kw.x # 0
       \/ (Len(args) = 2 /\ kw.func # 0)
    THEN Outcome(m, 0, "TypeError")
    ELSE
      LET func == IF Len(args) = 2 THEN args[2] ELSE kw.func
          prod == Call(m, args[1], <<>>, NoKw, d + 1)
      IN  IF prod.err # "" THEN prod
          ELSE IF ~IsList(prod, prod.ret) \/ ~IsCallable(prod.heap, func)
          THEN Outcome(prod, 0, "TypeError")
          ELSE Outcome(Alloc(prod, << PartialObj(func, prod.heap[prod.ret].args),
                                      ExoticObj(Len(prod.heap) + 1, LAMID) >>),
                       Len(prod.heap) + 2, "")

\* an apply that, with func omitted, passes every argument on: args[0](args)
ApplyBodyPassesAll(m, args, kw, d) ==
    IF kw.x # 0 THEN Outcome(m, 0, "TypeError")
    ELSE IF kw.func = 0
    THEN IF Len(args) = 0 THEN Outcome(m, 0, "IndexError")
         ELSE Call(m, args[1], args, NoKw, d + 1)
    ELSE Call(m, kw.func, args, NoKw, d + 1)

\* def apply(args, func=None)
ApplyBody(m, args, kw, d) ==
    IF kw.x # 0 THEN Outcome(m, 0, "TypeError")
    ELSE IF kw.func = 0
    THEN IF Len(args) = 0 THEN Outcome(m, 0, "IndexError")
         ELSE Call(m, args[1], Tail(args), NoKw, d + 1)
    ELSE Call(m, kw.func, args, NoKw, d + 1)

\* def identity(x): return x
IdentityBody(m, args, kw) ==
    IF Len(args) # 1 \/ kw # NoKw THEN Outcome(m, 0, "TypeError")
    ELSE Outcome(m, args[1], "")

\* a user function F, G: accepts whatever it is passed and returns a value
\* determined by the function and what it was passed
UserCall(m, self, args, kw) ==
    LET v == ResObj(self, args, kw)
    IN  IF \E i \in 1..Len(m.vals) : m.vals[i] = v
        THEN Outcome(m, 0 - (CHOOSE i \in 1..Len(m.vals) : m.vals[i] = v), "")
        ELSE Outcome([m EXCEPT !.vals = Append(m.vals, v)], 0 - (Len(m.vals) + 1), "")

\* a user function that raises
RaiserCall(m) == Outcome(m, 0, "Boom")

\* a user function of no parameters that returns a list
ProducerCall(m, self, args, kw) ==
    IF Len(args) # 0 \/ kw # NoKw THEN Outcome(m, 0, "TypeError")
    ELSE Outcome(m, m.heap[self].func, "")

\* the call c(args, kw) made at nesting depth d; every call is logged
\* when it completes
Call(m, c, args, kw, d) ==
    LET k == IF c \in 1..Len(m.heap) THEN m.heap[c].kind ELSE "none"
        r == CASE k = "exotic"      -> ExoticCall(m, c, args, kw, d)
               [] k = "partial"     -> PartialCall(m, c, args, kw, d)
               [] k = "lambda_id"   -> LambdaIdCall(m, args, kw)
               [] k = "thunk"       -> ThunkCall(m, c, args, kw)
               [] k = "unpack_fn"   -> UnpackBody(m, args, kw, d)
               [] k = "apply_fn"    -> ApplyBody(m, args, kw, d)
               [] k = "identity_fn" -> IdentityBody(m, args, kw)
               [] k = "user"        -> UserCall(m, c, args, kw)
               [] k = "raiser"      -> RaiserCall(m)
               [] k = "producer"    -> ProducerCall(m, c, args, kw)
               [] OTHER             -> Outcome(m, 0, "TypeError")
    IN  [r EXCEPT !.log = Append(r.log, [callee |-> c, args |-> args, kw |-> kw,
                                        depth |-> d, ret |-> r.ret, err |-> r.err])]

----------------------------------------------------------------------------
(* The operators of ExoticFunction: each returns the machine it leaves *)

\* _ExoticBuilder.__mod__ and exotic: ExoticFunction(func)
ExoticBuild(h, func) ==
    Outcome(Alloc(Machine(h), <<ExoticObj(func, LAMID)>>), Len(h) + 1, "")

\* a __matmul__ with the operands exchanged: ExoticFunction(self, func)
MatMulExchanged(h, self, func) ==
    Outcome(Alloc(Machine(h), <<ExoticObj(self, func)>>), Len(h) + 1, "")

\* __matmul__: ExoticFunction(func, self)
MatMul(h, self, func) ==
    Outcome(Alloc(Machine(h), <<ExoticObj(func, self)>>), Len(h) + 1, "")

\* a __mul__ that passes self as the post-transform:
\* ExoticFunction(partial(self.func, arg), self)
MulKeepsSelf(h, self, arg) ==
    Outcome(Alloc(Machine(h), << PartialObj(h[self].func, <<arg>>),
                                 ExoticObj(Len(h) + 1, self) >>),
            Len(h) + 2, "")

\* a __mul__ that binds arg in place: self.func = partial(self.func, arg),
\* and returns self
MulInPlace(h, self, arg) ==
    Outcome([Machine(h) EXCEPT
               !.heap = Append([h EXCEPT ![self].func = Len(h) + 1],
                               PartialObj(h[self].func, <<arg>>))],
            self, "")

\* __mul__: ExoticFunction(partial(self.func, arg), self._composed)
Mul(h, self, arg) ==
    Outcome(Alloc(Machine(h), << PartialObj(h[self].func, <<arg>>),
                                 ExoticObj(Len(h) + 1, h[self].composed) >>),
            Len(h) + 2, "")

\* __rshift__: self.__mul__(lambda *, __x=arg: __x)
RShift(h, self, arg) == Mul(Append(h, ThunkObj(arg)), self, Len(h) + 1)

\* a __lshift__ that wraps arg as __rshift__ does
LShiftWraps(h, self, arg) == RShift(h, self, arg)

\* __lshift__: self.__mul__(arg)
LShift(h, self, arg) == Mul(h, self, arg)

\* an __or__ that passes self positionally: modifier(self)
OrPositional(h, self, modifier) == Call(Machine(h), modifier, <<self>>, NoKw, 0)

\* __or__: modifier(func=self)
Or(h, self, modifier) == Call(Machine(h), modifier, <<>>, KwFunc(self), 0)

\* c(args, kw), called by the user
UserInvoke(h, c, args, kw) == Call(Machine(h), c, args, kw, 0)

----------------------------------------------------------------------------
(* Actions: one per operation a user of the module performs *)

\* argument tuples of at most n values of S
Tuples(S, n) == UNION {[1..k -> S] : k \in 0..n}

ImportOp ==
    [name |-> "import", self |-> 0, args |-> <<>>, kw |-> NoKw]

Init ==
    /\ heap = BaseHeap
    /\ vals = <<>>
    /\ origin = <<>>
    /\ op = [name |-> "import", self |-> 0, args |-> <<>>, kw |-> NoKw,
             ret |-> 0, err |-> "", base |-> NBase]
    /\ log = <<>>

\* the operation `name` on self with args and kw, leaving r, is performed if
\* it creates no more than the session's bound allows
Perform(name, self, args, kw, r, max) ==
    /\ Len(r.heap) <= NBase + max
    /\ heap' = r.heap
    /\ vals' = r.vals
    /\ log' = r.log
    /\ origin' = [i \in 1..(Len(r.heap) - NBase) |->
                    IF i <= Len(origin) THEN origin[i]
                    ELSE [name |-> name, self |-> self, args |-> args, kw |-> kw]]
    /\ op' = [name |-> name, self |-> self, args |-> args, kw |-> kw,
              ret |-> r.ret, err |-> r.err, base |-> Len(heap)]

\* exotic % func
Build(func, max) == Perform("build", 0, <<func>>, NoKw, ExoticBuild(heap, func), max)

\* self @ func
Compose(self, func, max) ==
    Perform("matmul", self, <<func>>, NoKw, MatMul(heap, self, func), max)

\* self * arg
PartialMul(self, arg, max) ==
    Perform("mul", self, <<arg>>, NoKw, Mul(heap, self, arg), max)

\* self << arg
PartialLShift(self, arg, max) ==
    Perform("lshift", self, <<arg>>, NoKw, LShift(heap, self, arg), max)

\* self >> arg
PartialRShift(self, arg, max) ==
    Perform("rshift", self, <<arg>>, NoKw, RShift(heap, self, arg), max)

\* self | modifier
Pipe(self, modifier, max) ==
    Perform("or", self, <<modifier>>, NoKw, Or(heap, self, modifier), max)

\* c(args, kw)
Invoke(c, args, kw, max) ==
    Perform("call", c, args, kw, UserInvoke(heap, c, args, kw), max)

----------------------------------------------------------------------------
(* Sessions.  Each draws the operands of its operations from small sets.   *)

Data == {D1, D2}

Made == {v \in 1..Len(heap) : v > NBase}

MadeExotics == {v \in Made : heap[v].kind = "exotic"}

Thunks == {v \in Made : heap[v].kind = "thunk"}

\* any operation on the objects made so far
Next ==
    \/ \E func \in {F} : Build(func, MaxNew)
    \/ \E self \in MadeExotics, func \in {G} : Compose(self, func, MaxNew)
    \/ \E self \in MadeExotics, arg \in {D1} : PartialMul(self, arg, MaxNew)
    \/ \E self \in MadeExotics, arg \in {D1} : PartialLShift(self, arg, MaxNew)
    \/ \E self \in MadeExotics, arg \in {D1} : PartialRShift(self, arg, MaxNew)
    \/ \E self \in MadeExotics, modifier \in {APPLY, IDENTITY, F} :
          Pipe(self, modifier, MaxNew)
    \/ \E c \in MadeExotics, args \in Tuples({D2}, MaxArgs) : Invoke(c, args, NoKw, MaxNew)

Spec == Init /\ [][Next]_vars

\* compositions of user functions, one of which raises, and their invocation
NextCompose ==
    \/ \E func \in {F, G, R} : Build(func, MaxChain)
    \/ \E self \in MadeExotics, func \in {F, G, R} : Compose(self, func, MaxChain)
    \/ \E c \in MadeExotics, args \in Tuples({D1}, MaxArgs) : Invoke(c, args, NoKw, MaxChain)

SpecCompose == Init /\ [][NextCompose]_vars

\* partial applications and compositions, and their invocation
NextPartial ==
    \/ \E func \in {F} : Build(func, MaxObjs)
    \/ \E self \in MadeExotics, func \in {G} : Compose(self, func, MaxObjs)
    \/ \E self \in MadeExotics, arg \in Data : PartialMul(self, arg, MaxObjs)
    \/ \E self \in MadeExotics, arg \in Data : PartialLShift(self, arg, MaxObjs)
    \/ \E c \in MadeExotics, args \in Tuples(Data, MaxArgs) : Invoke(c, args, NoKw, MaxObjs)

SpecPartial == Init /\ [][NextPartial]_vars

\* >> and the calls its lambda may receive
NextThunk ==
    \/ \E func \in {F, G} : Build(func, MaxObjs)
    \/ \E self \in MadeExotics, arg \in Data \cup {L} : PartialRShift(self, arg, MaxObjs)
    \/ \E c \in MadeExotics, args \in Tuples(Data, MaxArgs) : Invoke(c, args, NoKw, MaxObjs)
    \/ \E c \in Thunks, args \in Tuples(Data, MaxArgs),
          kw \in {NoKw, KwFunc(F)} \cup {KwX(v) : v \in Data \cup {L}} :
          Invoke(c, args, kw, MaxObjs)

SpecThunk == Init /\ [][NextThunk]_vars

\* | and the modifiers apply and unpack
NextPipe ==
    \/ \E func \in {F, G} : Build(func, MaxObjs)
    \/ \E arg \in {L, D1} : PartialRShift(UNPACK, arg, MaxObjs)
    \/ \E self \in MadeExotics, modifier \in {APPLY, UNPACK, IDENTITY, F} \cup MadeExotics :
          Pipe(self, modifier, MaxObjs)
    \/ \E arg \in {P, F} \cup Thunks, kw \in {NoKw, KwFunc(F), KwFunc(D1)} :
          Invoke(UNPACK, <<arg>>, kw, MaxObjs)
    \/ \E c \in MadeExotics, args \in Tuples(Data, MaxArgs) : Invoke(c, args, NoKw, MaxObjs)

SpecPipe == Init /\ [][NextPipe]_vars

\* apply, called by the user in both of its modes
NextApply ==
    \/ \E func \in {G} : Build(func, MaxChain)
    \/ \E args \in Tuples({F, D1, D2}, MaxApplyArgs),
          kw \in {NoKw, KwFunc(F)} \cup {KwFunc(c) : c \in MadeExotics} :
          Invoke(APPLY, args, kw, MaxChain)
    \/ \E c \in MadeExotics, args \in Tuples(Data, MaxArgs) :
          Invoke(APPLY, <<c>> \o args, NoKw, MaxChain)

SpecApply == Init /\ [][NextApply]_vars

----------------------------------------------------------------------------
(* Properties: what they are stated with *)

\* the operation that created the object v
Origin(v) == IF v > NBase THEN origin[v - NBase] ELSE ImportOp

Kind(v) ==
    IF v \in 1..Len(heap) THEN heap[v].kind ELSE IF v < 0 THEN "value" ELSE "none"

IsUserCall(e) == Kind(e.callee) \in {"user", "raiser", "producer"}

\* the calls of user functions during the last operation, in order
UserCalls == SelectSeq(log, IsUserCall)

\* the operators that led to the wrapped callable w, first to last
RECURSIVE Ops(_)
Ops(w) ==
    IF Origin(w).name \in {"matmul", "mul", "lshift", "rshift"}
    THEN Append(Ops(Origin(w).self), Origin(w).name)
    ELSE <<Origin(w).name>>

InSeq(x, s) == \E i \in 1..Len(s) : s[i] = x

\* what the operators that led to w say w is: the functions to call, first to
\* last, each with the arguments bound to it
RECURSIVE Stages(_)
Stages(w) ==
    LET o == Origin(w)
        bound == IF o.name = "rshift" THEN w - 2 ELSE o.args[1]
    IN  CASE o.name = "build"  -> << [fn |-> o.args[1], pre |-> <<>>] >>
          [] o.name = "matmul" -> << [fn |-> o.args[1], pre |-> <<>>] >> \o Stages(o.self)
          [] o.name \in {"mul", "lshift", "rshift"} ->
                LET s == Stages(o.self)
                IN  IF s = <<>> THEN <<>>
                    ELSE << [fn |-> s[1].fn, pre |-> Append(s[1].pre, bound)] >> \o Tail(s)
          [] OTHER -> <<>>

AllUser(st) == \A k \in 1..Len(st) : Kind(st[k].fn) = "user"

\* the last operation called exactly the functions of st, in order, the first
\* with args and each other one with the result of the one before, and
\* returned the result of the last
Ran(st, args) ==
    LET uc == UserCalls
    IN  /\ Len(uc) = Len(st)
        /\ \A k \in 1..Len(st) :
              /\ uc[k].callee = st[k].fn
              /\ uc[k].args = st[k].pre \o (IF k = 1 THEN args ELSE <<uc[k - 1].ret>>)
              /\ uc[k].kw = NoKw
              /\ uc[k].err = ""
              /\ uc[k].ret < 0
              /\ vals[0 - uc[k].ret] = ResObj(uc[k].callee, uc[k].args, NoKw)
        /\ op.err = ""
        /\ op.ret = uc[Len(st)].ret

CalledMade == op.name = "call" /\ op.self \in MadeExotics

----------------------------------------------------------------------------
(* C1: build(f) @ g @ ... @ h, invoked with x, calls h with x first, then  *)
(* each function composed before it with the result of the one after it,   *)
(* each exactly once, and returns the result of f: f(g(...h(x))).          *)
C1_ComposeOrder ==
    (/\ CalledMade
     /\ \A i \in 1..Len(Ops(op.self)) : Ops(op.self)[i] \in {"build", "matmul"}
     /\ AllUser(Stages(op.self)))
    => /\ Ran(Stages(op.self), op.args)
       /\ Len(Stages(op.self)) = Len(Ops(op.self))

C1_Witness ==
    /\ CalledMade
    /\ Ops(op.self) = <<"build", "matmul", "matmul">>
    /\ AllUser(Stages(op.self))
    /\ Stages(op.self)[1].fn # Stages(op.self)[2].fn
    /\ op.args = <<D1>>
    /\ op.err = ""

----------------------------------------------------------------------------
(* C2: build(f) * a and build(f) << a, invoked with args, call f once with *)
(* a as the first positional argument followed by args, and return its     *)
(* result: f(a) when invoked with no arguments.                            *)
C2_PartialLeft ==
    (/\ CalledMade
     /\ Origin(op.self).name \in {"mul", "lshift"}
     /\ Origin(Origin(op.self).self).name = "build"
     /\ Kind(Origin(Origin(op.self).self).args[1]) = "user")
    => LET f == Origin(Origin(op.self).self).args[1]
           a == Origin(op.self).args[1]
       IN  /\ Len(UserCalls) = 1
           /\ UserCalls[1].callee = f
           /\ UserCalls[1].args = <<a>> \o op.args
           /\ UserCalls[1].kw = NoKw
           /\ op.err = ""
           /\ op.ret = UserCalls[1].ret
           /\ op.ret < 0
           /\ vals[0 - op.ret] = ResObj(f, <<a>> \o op.args, NoKw)

C2_Witness ==
    /\ CalledMade
    /\ Ops(op.self) = <<"build", "lshift">>
    /\ Origin(op.self).args = <<D1>>
    /\ op.args = <<D2>>
    /\ op.err = ""

----------------------------------------------------------------------------
(* C9: w * a and w << a wrap w's underlying function bound to a, with w's  *)
(* post-transform, not w; so a wrapped callable made with @ and then * or  *)
(* <<, invoked with x, calls the function composed last with a then x and  *)
(* every function composed before it exactly once: f(g(a, x)).             *)
C9_PartialKeepsPostTransform ==
    /\ (op.name \in {"mul", "lshift"})
       => /\ heap[op.ret].kind = "exotic"
          /\ heap[op.ret].composed = heap[op.self].composed
          /\ heap[heap[op.ret].func] = PartialObj(heap[op.self].func, op.args)
    /\ (/\ CalledMade
        /\ Origin(op.self).name \in {"mul", "lshift"}
        /\ InSeq("matmul", Ops(op.self))
        /\ AllUser(Stages(op.self)))
       => Ran(Stages(op.self), op.args)

C9_Witness ==
    /\ CalledMade
    /\ Ops(op.self) = <<"build", "matmul", "mul">>
    /\ Origin(op.self).args = <<D1>>
    /\ op.args = <<D2>>
    /\ Len(UserCalls) = 2
    /\ UserCalls[1].args = <<D1, D2>>

----------------------------------------------------------------------------
(* C10: when a function of a composition raises, the invocation raises     *)
(* that error: the functions after it (the post-transforms) are not        *)
(* called, every enclosing call raises the same error, and nothing         *)
(* completes normally after the raise.  When none raises, neither does the *)
(* invocation.                                                             *)
FirstRaise == CHOOSE j \in 1..Len(log) : log[j].err # "" /\ \A i \in 1..(j - 1) : log[i].err = ""

C10_ErrorsPropagate ==
    CalledMade =>
      LET st == Stages(op.self)
          bad == {k \in 1..Len(st) : Kind(st[k].fn) = "raiser"}
      IN  IF bad = {} THEN op.err = ""
          ELSE LET k == CHOOSE x \in bad : \A y \in bad : x <= y
               IN  /\ op.err = "Boom"
                   /\ op.ret = 0
                   /\ Len(UserCalls) = k
                   /\ UserCalls[k].callee = st[k].fn
                   /\ \A j \in 1..(k - 1) : UserCalls[j].err = ""
                   /\ log[FirstRaise].callee = st[k].fn
                   /\ \A j \in (FirstRaise + 1)..Len(log) :
                         /\ log[j].err = "Boom"
                         /\ Kind(log[j].callee) = "exotic"
                         /\ log[j].depth < log[j - 1].depth

C10_Witness ==
    /\ CalledMade
    /\ Len(Stages(op.self)) = 3
    /\ Kind(Stages(op.self)[1].fn) = "user"
    /\ Kind(Stages(op.self)[2].fn) = "raiser"
    /\ op.err = "Boom"

----------------------------------------------------------------------------
(* C3: w | m calls m exactly once, with no positional argument and w as    *)
(* the keyword argument func, and returns or raises what m does.           *)
C3_PipeCallsModifier ==
    (op.name = "or")
    => /\ {j \in 1..Len(log) : log[j].depth = 0} = {Len(log)}
       /\ log[Len(log)].callee = op.args[1]
       /\ log[Len(log)].args = <<>>
       /\ log[Len(log)].kw = KwFunc(op.self)
       /\ op.ret = log[Len(log)].ret
       /\ op.err = log[Len(log)].err
       /\ (Kind(op.args[1]) = "user")
          => /\ op.err = ""
             /\ op.ret < 0
             /\ vals[0 - op.ret] = ResObj(op.args[1], <<>>, KwFunc(op.self))

C3_Witness ==
    /\ op.name = "or"
    /\ op.args = <<F>>
    /\ op.self \in MadeExotics
    /\ op.err = ""

----------------------------------------------------------------------------
(* C7: w | m does what m(w) does: the same result or error, the same       *)
(* values and objects created.                                             *)
C7_PipeIsPositionalCall ==
    (op.name = "or")
    => LET r == UserInvoke(SubSeq(heap, 1, op.base), op.args[1], <<op.self>>, NoKw)
       IN  /\ r.err = op.err
           /\ r.ret = op.ret
           /\ r.vals = vals
           /\ r.heap = heap

----------------------------------------------------------------------------
(* C6: unpack(p, func=f) calls p once, with no arguments, does not call f, *)
(* and returns a new wrapped callable; that callable, invoked, calls f     *)
(* once with the elements of the list p returned, in order, followed by    *)
(* the arguments of the invocation.  The same holds of the callable made   *)
(* by w | unpack >> list, for the function w wraps.                        *)
Elements(p) ==
    IF Kind(p) = "producer" THEN heap[heap[p].func].args ELSE heap[heap[p].kw.x].args

MadeByUnpack(w) ==
    /\ Origin(w).name = "call"
    /\ Origin(w).self = UNPACK

MadeByPipedUnpack(w) ==
    /\ Origin(w).name = "or"
    /\ Origin(w).args[1] \in MadeExotics
    /\ Origin(Origin(w).args[1]).name = "rshift"
    /\ Origin(Origin(w).args[1]).self = UNPACK
    /\ Origin(Origin(w).self).name = "build"

CalledOnce(f, args) ==
    /\ Len(UserCalls) = 1
    /\ UserCalls[1].callee = f
    /\ UserCalls[1].args = args
    /\ UserCalls[1].kw = NoKw
    /\ op.err = ""
    /\ op.ret = UserCalls[1].ret

C6_Unpack ==
    /\ (op.name = "call" /\ op.self = UNPACK /\ op.err = "")
       => /\ Cardinality({j \in 1..Len(log) : log[j].callee = op.args[1]}) = 1
          /\ \A j \in 1..Len(log) :
                /\ log[j].callee = op.args[1] => (log[j].args = <<>> /\ log[j].kw = NoKw)
                /\ log[j].callee # op.kw.func
          /\ op.ret > op.base
          /\ Kind(op.ret) = "exotic"
    /\ (CalledMade /\ MadeByUnpack(op.self) /\ Kind(Origin(op.self).kw.func) = "user")
       => CalledOnce(Origin(op.self).kw.func,
                     Elements(Origin(op.self).args[1]) \o op.args)
    /\ (/\ CalledMade
        /\ MadeByPipedUnpack(op.self)
        /\ Kind(Origin(Origin(op.self).self).args[1]) = "user")
       => CalledOnce(Origin(Origin(op.self).self).args[1],
                     heap[Origin(Origin(op.self).args[1]).args[1]].args \o op.args)

C6_Witness ==
    /\ CalledMade
    /\ MadeByUnpack(op.self)
    /\ Origin(op.self).args = <<P>>
    /\ Origin(op.self).kw = KwFunc(F)
    /\ op.args = <<>>
    /\ Len(UserCalls) = 1
    /\ UserCalls[1].callee = F
    /\ UserCalls[1].args = <<D1, D2>>

----------------------------------------------------------------------------
(* C5: apply with func omitted calls args[0] with args[1:], and with func   *)
(* given calls func with args: one call, with no keyword arguments,        *)
(* whose result or error is apply's.                                       *)
C5_ApplyModes ==
    (/\ op.name = "call"
     /\ op.self = APPLY
     /\ op.kw.x = 0
     /\ (op.kw.func # 0 \/ Len(op.args) >= 1))
    => LET func == IF op.kw.func = 0 THEN op.args[1] ELSE op.kw.func
           rest == IF op.kw.func = 0 THEN Tail(op.args) ELSE op.args
           made == {j \in 1..Len(log) : log[j].depth = 2}
       IN  /\ Cardinality(made) = 1
           /\ \A j \in made :
                 /\ log[j].callee = func
                 /\ log[j].args = rest
                 /\ log[j].kw = NoKw
                 /\ op.ret = log[j].ret
                 /\ op.err = log[j].err
           /\ (Kind(func) = "user")
              => /\ op.err = ""
                 /\ op.ret < 0
                 /\ vals[0 - op.ret] = ResObj(func, rest, NoKw)

C5_Witness ==
    /\ op.name = "call"
    /\ op.self = APPLY
    /\ op.kw = NoKw
    /\ op.args = <<F, D1, D2>>
    /\ op.ret < 0
    /\ vals[0 - op.ret] = ResObj(F, <<D1, D2>>, NoKw)

----------------------------------------------------------------------------
(* C8: w >> arg binds, as the first positional argument of w's underlying  *)
(* function, a callable that returns arg whenever it is called with no     *)
(* positional arguments, whatever else it is called with.                  *)
C8_ThunkReturnsArg ==
    /\ (op.name = "rshift")
       => /\ Kind(op.ret) = "exotic"
          /\ heap[op.ret].composed = heap[op.self].composed
          /\ heap[heap[op.ret].func].kind = "partial"
          /\ heap[heap[op.ret].func].func = heap[op.self].func
          /\ Len(heap[heap[op.ret].func].args) = 1
          /\ Kind(heap[heap[op.ret].func].args[1]) = "thunk"
    /\ (op.name = "call" /\ op.self \in Thunks /\ op.args = <<>> /\ op.err = "")
       => op.ret = Origin(op.self).args[1]

----------------------------------------------------------------------------
(* C4 as stated: @, *, <<, >> and | each return a new wrapped callable,    *)
(* and no operation changes an object that exists.                         *)
ReturnsNew(names) ==
    (op'.name \in names /\ op'.err = "")
    => /\ op'.ret > Len(heap)
       /\ heap'[op'.ret].kind = "exotic"

NothingChanged ==
    /\ Len(heap') >= Len(heap)
    /\ \A i \in 1..Len(heap) : heap'[i] = heap[i]

\* what invoking w with one argument does, given the heap h: the calls made,
\* the values created, the result and the error
Behaviour(h, w) == [UserInvoke(h, w, <<D2>>, NoKw) EXCEPT !.heap = <<>>]

BehavesAsBefore == \A w \in MadeExotics : Behaviour(heap, w) = Behaviour(heap', w)

C4_AllReturnNew ==
    [][ReturnsNew({"matmul", "mul", "lshift", "rshift", "or"}) /\ NothingChanged]_vars

(* C4, amended: @, *, << and >> each return a new wrapped callable, | returns *)
(* what the modifier returns, and no operation, | and invocation included, *)
(* changes an object that exists: every wrapped callable has the           *)
(* underlying function and post-transform it had, and behaves as before.   *)
C4_Immutable ==
    [][/\ ReturnsNew({"matmul", "mul", "lshift", "rshift"})
       /\ NothingChanged
       /\ BehavesAsBefore]_vars

C4_Witness ==
    /\ CalledMade
    /\ op.err = ""
    /\ \E j \in Made : Origin(j).name = "mul" /\ Origin(j).self = op.self

=============================================================================
